---- MODULE Spec2Model ----
(***************************************************************************)
(* BusinessInsight API (src/main.py): the three upstream fetchers, the     *)
(* /api/search handler with its best-effort persistence, and the two       *)
(* read-back endpoints /api/insights and /api/news.                        *)
(*                                                                         *)
(* Text is modelled as a sequence of characters where the code inspects    *)
(* characters (the company name, which is stripped), and as an opaque      *)
(* string where it only passes the value through.  Python's None is the    *)
(* string None.  Floats are held in tenths (1.5 is 15).                    *)
(***************************************************************************)
EXTENDS Integers, Sequences, FiniteSets, TLC

VARIABLES
    db,            \* database.db: "connected" or "none", fixed at startup
    insightStore,  \* collection "insight", oldest document first
    newsStore,     \* collection "news"
    queryStore,    \* collection "companyquery"
    clock,         \* the time datetime.utcnow() returns
    served,        \* number of requests received so far
    pc,            \* position of the request being handled
    op,            \* the handler running: "none", "search", "insights", "news"
    payload,       \* the request's input
    company,       \* run_search: payload.company.strip()
    summary,       \* run_search: result of fetch_wikipedia_summary
    news_items,    \* run_search: result of fetch_google_news_rss
    prices,        \* run_search: result of fetch_stooq_prices
    snapshot,      \* run_search: the document built at lines 198-207
    n,             \* run_search: index of the next news item to write
    calls,         \* upstream calls started by this request, in order
    writes,        \* create_document calls made by this request, in order
    liveReply,     \* get_news: what the feed answered to the live call
    storeRead,     \* what get_documents answered to this request
    response,      \* the handler's result
    prev,          \* the request handled before this one and its result
    probe          \* a direct call of one fetcher and its result

vars == << db, insightStore, newsStore, queryStore, clock, served, pc, op,
           payload, company, summary, news_items, prices, snapshot, n, calls,
           writes, liveReply, storeRead, response, prev, probe >>

storeVars == << db, insightStore, newsStore, queryStore, clock, served >>
requestVars == << pc, op, payload, company, summary, news_items, prices,
                  snapshot, n, calls, writes, liveReply, storeRead, response,
                  prev >>

(***************************************************************************)
(* Bounds of the model.                                                    *)
(***************************************************************************)
MaxItems == 2      \* most <item> elements in a feed
MaxRows == 3       \* most lines after the header in a CSV body
MaxRequests == 2   \* requests received in one run
MaxClock == 1      \* the clock stops advancing here

None == "None"
Space == " "

Min(a, b) == IF a < b THEN a ELSE b
Max(a, b) == IF a > b THEN a ELSE b

\* every sequence over S of length at most k
SeqsUpTo(S, k) == UNION {[1..m -> S] : m \in 0..k}

(***************************************************************************)
(* Python built-ins the handlers use.                                      *)
(***************************************************************************)
RECURSIVE lstrip(_)
lstrip(s) ==
    IF s = << >> THEN s
    ELSE IF Head(s) = Space THEN lstrip(Tail(s)) ELSE s

RECURSIVE rstrip(_)
rstrip(s) ==
    IF s = << >> THEN s
    ELSE IF s[Len(s)] = Space THEN rstrip(SubSeq(s, 1, Len(s) - 1)) ELSE s

strip_none(s) == s

\* str.strip()
strip(s) == rstrip(lstrip(s))

\* s[i:] for any integer i
SliceFrom(s, i) ==
    LET start == IF i >= 0 THEN Min(i, Len(s)) ELSE Max(Len(s) + i, 0)
    IN  SubSeq(s, start + 1, Len(s))

\* s[:j] for any integer j
SliceTo(s, j) ==
    LET stop == IF j >= 0 THEN Min(j, Len(s)) ELSE Max(Len(s) + j, 0)
    IN  SubSeq(s, 1, stop)

(***************************************************************************)
(* fetch_wikipedia_summary.  A reply is what requests.get did: it raised,  *)
(* or it returned a status and a body (malformed JSON, or an object whose  *)
(* "extract" is absent or a text).                                         *)
(***************************************************************************)
Absent == "<absent>"

WikiReplies ==
    { [raised |-> TRUE,  status |-> 0,   json |-> FALSE, extract |-> Absent],
      [raised |-> FALSE, status |-> 500, json |-> TRUE,  extract |-> "E"],
      [raised |-> FALSE, status |-> 200, json |-> FALSE, extract |-> Absent],
      [raised |-> FALSE, status |-> 200, json |-> TRUE,  extract |-> Absent],
      [raised |-> FALSE, status |-> 200, json |-> TRUE,  extract |-> "E"] }

\* the text as a sequence of pieces: "" is << >>
fetch_wikipedia_summary(reply) ==
    IF reply.raised THEN << >>
    ELSE IF reply.status = 200
         THEN IF ~reply.json THEN << >>
              ELSE IF reply.extract = Absent THEN << >>
                   ELSE << reply.extract >>
         ELSE << >>

\* bool(text): "" is falsy
Truthy(text) == text # << >>

(***************************************************************************)
(* fetch_google_news_rss.  An <item> holds, for each child element the     *)
(* code looks up, Absent (no such element), None (an element without       *)
(* text) or the element's text.                                            *)
(***************************************************************************)
Items ==
    { [title |-> "t1", link |-> "u1", pubDate |-> "d1", source |-> "s1",
       description |-> "x1"],
      [title |-> "t2", link |-> "u2", pubDate |-> "d2", source |-> Absent,
       description |-> Absent],
      [title |-> Absent, link |-> Absent, pubDate |-> Absent,
       source |-> Absent, description |-> Absent],
      [title |-> None, link |-> None, pubDate |-> None, source |-> None,
       description |-> None] }

Feeds == SeqsUpTo(Items, MaxItems)

\* requests.get raised; or a final status (a 3xx without a Location header
\* is not followed) and a body that parses to `items` or not at all;
\* `faultAt` = k > 0: an exception is raised while the loop handles the k-th
\* item it visits
NewsStatuses == {200, 302, 503}

NewsReplies(feeds) ==
    { [raised |-> TRUE, status |-> 0, wellFormed |-> FALSE, items |-> << >>,
       faultAt |-> 0] }
    \cup { [raised |-> FALSE, status |-> s, wellFormed |-> FALSE,
            items |-> << >>, faultAt |-> 0] : s \in NewsStatuses }
    \cup { [raised |-> FALSE, status |-> s, wellFormed |-> TRUE,
            items |-> f, faultAt |-> k] :
            s \in NewsStatuses, f \in feeds, k \in 0..MaxItems }

\* Response.raise_for_status(): raises for 4xx and 5xx
RaiseForStatus(status) == status >= 400 /\ status < 600

\* lines 108-116: the dictionary built from one <item>
NewsItem(c, item) ==
    [ company |-> c,
      title |-> IF item.title # Absent THEN item.title ELSE "",
      url |-> IF item.link # Absent THEN item.link ELSE "",
      source |-> IF item.source # Absent THEN item.source ELSE "Google News",
      published_at |-> IF item.pubDate # Absent THEN item.pubDate ELSE "",
      summary |-> IF item.description # Absent THEN item.description ELSE None,
      tags |-> << >> ]

\* lines 102-116: the loop over root.findall(".//item")[:limit]; the result
\* is the list built so far and whether an exception ended the loop
WalkItems(c, found, faultAt) ==
    LET done == IF faultAt > 0 /\ faultAt <= Len(found)
                THEN faultAt - 1 ELSE Len(found)
    IN  [ raised |-> faultAt > 0 /\ faultAt <= Len(found),
          items |-> [i \in 1..done |-> NewsItem(c, found[i])] ]

\* lines 97-100: requests.get, raise_for_status, ET.fromstring
TryNews(c, limit, reply) ==
    IF reply.raised \/ RaiseForStatus(reply.status) \/ ~reply.wellFormed
    THEN [raised |-> TRUE, items |-> << >>]
    ELSE WalkItems(c, SliceTo(reply.items, limit), reply.faultAt)

NewsExceptPartial(attempt) == [raised |-> FALSE, items |-> attempt.items]

\* lines 117-120: except Exception: return []
NewsExcept(attempt) ==
    IF attempt.raised THEN [raised |-> FALSE, items |-> << >>]
    ELSE [raised |-> FALSE, items |-> attempt.items]

\* the call's outcome: whether it raised, and the list it returned
fetch_google_news_rss(c, locale, limit, reply) ==
    NewsExcept(TryNews(c, limit, reply))

\* line 94-95: the locale the request URL carries
NewsLocale(locale) == IF locale = None THEN "en-US" ELSE locale

(***************************************************************************)
(* fetch_stooq_prices.  A body is a sequence of lines, a line a sequence   *)
(* of comma-separated fields; the line << "" >> is a blank line.           *)
(***************************************************************************)
\* float(x) in tenths, for the literals float() accepts
FloatLit == [x \in {"1.5", "2", "12.7", "-3.9"} |->
               CASE x = "1.5" -> 15 [] x = "2" -> 20 [] x = "12.7" -> 127
                 [] x = "-3.9" -> -39]

\* float() accepts it: "nan" is a float, but int() refuses it
IsFloat(x) == x \in DOMAIN FloatLit \/ x = "nan"

\* the rows below carry "nan" in the volume column only
FloatOf(x) == FloatLit[x]

\* int(f) truncates towards zero
IntOf(f) == IF f >= 0 THEN f \div 10 ELSE -((-f) \div 10)

Rows ==
    { << "d1", "1.5", "2", "1.5", "2", "12.7" >>,
      << "d2", "2", "12.7", "1.5", "12.7", "-3.9" >>,
      << "d3", "1.5", "2", "1.5", "2" >>,
      << "d4", "1.5", "2", "1.5", "2", "2", "2" >>,
      << "d5", "1.5", "x", "1.5", "2", "2" >>,
      << "d6", "1.5", "2", "1.5", "2", "nan" >>,
      << "d7", "1.5", "2", "1.5", "2", "" >>,
      << "" >> }

Header == << "Date", "Open", "High", "Low", "Close", "Volume" >>

\* lines 142-150: the unpacking and the conversions of one row
RowParses(row) ==
    /\ Len(row) = 6
    /\ \A i \in 2..6 : IsFloat(row[i])
    /\ row[6] # "nan"

Bar(row) ==
    [ date |-> row[1], open |-> FloatOf(row[2]), high |-> FloatOf(row[3]),
      low |-> FloatOf(row[4]), close |-> FloatOf(row[5]),
      volume |-> IntOf(FloatOf(row[6])) ]

RECURSIVE ParseRowsAbort(_)
ParseRowsAbort(rows) ==
    IF rows = << >> THEN << >>
    ELSE IF RowParses(Head(rows)) THEN << Bar(Head(rows)) >> \o ParseRowsAbort(Tail(rows))
         ELSE << >>

\* lines 139-153: the loop; a row that raises is skipped
RECURSIVE ParseRows(_)
ParseRows(rows) ==
    IF rows = << >> THEN << >>
    ELSE IF RowParses(Head(rows))
         THEN << Bar(Head(rows)) >> \o ParseRows(Tail(rows))
         ELSE ParseRows(Tail(rows))

IsBlank(line) == line = << "" >>

RECURSIVE DropLeadingBlank(_)
DropLeadingBlank(lines) ==
    IF lines # << >> /\ IsBlank(Head(lines))
    THEN DropLeadingBlank(Tail(lines)) ELSE lines

RECURSIVE DropTrailingBlank(_)
DropTrailingBlank(lines) ==
    IF lines # << >> /\ IsBlank(lines[Len(lines)])
    THEN DropTrailingBlank(SubSeq(lines, 1, Len(lines) - 1)) ELSE lines

\* r.text.strip().splitlines()
StripLines(lines) == DropTrailingBlank(DropLeadingBlank(lines))

\* r.text is "" or starts with "<!DOCTYPE"
Html == << << "<!DOCTYPE html>" >> >>

CsvBodies(rowSets) ==
    { << >>, Html } \cup { << Header >> \o rs : rs \in rowSets }

NoReply == [raised |-> TRUE, status |-> 0, text |-> << >>]

PriceReplies(bodies) ==
    { [raised |-> TRUE, status |-> 0, text |-> << >>],
      [raised |-> FALSE, status |-> 404, text |-> << Header >>] }
    \cup { [raised |-> FALSE, status |-> 200, text |-> b] : b \in bodies }

\* `not ticker`: None and "" are both falsy
fetch_stooq_prices(ticker, limit, reply) ==
    IF ticker = None \/ ticker = "" THEN << >>
    ELSE IF reply.raised THEN << >>
    ELSE IF reply.status # 200 \/ reply.text = << >>
            \/ Head(reply.text) = Head(Html)
         THEN << >>
         ELSE ParseRows(SliceFrom(SliceFrom(StripLines(reply.text), 1), -limit))

(***************************************************************************)
(* database.py is not among the source files: create_document and          *)
(* get_documents follow the specification's section 4.5 and 4.6.  A        *)
(* collection is a sequence of documents, oldest first.                    *)
(***************************************************************************)
create_document(store, doc) == Append(store, doc)

\* a write raises when the store is unavailable, and may raise otherwise
WriteOutcomes == IF db = "connected" THEN {TRUE, FALSE} ELSE {FALSE}

Reverse(s) == [i \in 1..Len(s) |-> s[Len(s) + 1 - i]]

\* the documents of company c, most recently stored first
Matching(store, c) ==
    LET Is(d) == d.company = c IN Reverse(SelectSeq(store, Is))

\* the lists get_documents may return: up to `limit` most recently stored
\* matching documents; the specification leaves limit <= 0 open
get_documents(store, c, limit) ==
    IF limit > 0 THEN { SliceTo(Matching(store, c), limit) }
    ELSE { SliceTo(Matching(store, c), k) : k \in 0..Len(Matching(store, c)) }

\* a read raises when the store is unavailable, and may raise otherwise
ReadOutcomes(store, c, limit) ==
    { [done |-> TRUE, ok |-> FALSE, docs |-> << >>] }
    \cup (IF db = "connected"
          THEN { [done |-> TRUE, ok |-> TRUE, docs |-> d] :
                 d \in get_documents(store, c, limit) }
          ELSE {})

(***************************************************************************)
(* Requests and their inputs.                                              *)
(***************************************************************************)
DefaultNewsLimit == 8
DefaultPriceLimit == 60
InsightsLimit == 3

\* payload.company of a search, and the company a read-back asks for
RawCompanies == { << >>, << Space >>, << Space, "a", Space >> }
QueryCompanies == { << "a" >>, << Space, "a", Space >> }
Tickers == {None, "", "AAPL"}
SearchTickers == {None, "AAPL"}
Locales == {"de-DE"}
NewsLimits == (-1)..(MaxItems + 1)

SearchPayloads ==
    [company : RawCompanies, ticker : SearchTickers, locale : Locales,
     limit : {0}]
InsightsPayloads ==
    [company : QueryCompanies, ticker : {None}, locale : {None}, limit : {0}]
NewsPayloads ==
    [company : QueryCompanies, ticker : {None}, locale : {None},
     limit : {-1, 1, 2}]

NoPayload == [company |-> << >>, ticker |-> None, locale |-> None, limit |-> 0]
NoResponse == [status |-> 0, body |-> << >>, items |-> << >>]
NoRead == [done |-> FALSE, ok |-> FALSE, docs |-> << >>]
NoPrev == [op |-> "none", response |-> NoResponse, writes |-> << >>]

\* what the upstream services answer to the handlers
SomeItem == CHOOSE i \in Items : i.title = "t1"
BareItem == CHOOSE i \in Items : i.title = Absent
SearchNewsReplies ==
    { r \in NewsReplies({ << SomeItem, BareItem >> }) : r.faultAt = 0 }
LiveNewsReplies ==
    { r \in SearchNewsReplies : r.status # 302 /\ (r.raised \/ r.wellFormed) }
GoodRow == CHOOSE r \in Rows : r[1] = "d1"
ShortRow == CHOOSE r \in Rows : r[1] = "d3"
SearchPriceReplies ==
    { r \in PriceReplies(CsvBodies({ << ShortRow, GoodRow >> })) :
      r.status = 200 /\ r.text # Html /\ r.text # << >> }

\* an upstream request: the fetcher, the name it asks for (the company, or
\* the ticker), the locale and the limit
Call(fn, name, locale, limit) ==
    [fn |-> fn, name |-> name, locale |-> locale, limit |-> limit]

\* `clock` is the time the request reads at line 206; while it writes to
\* the store the time may advance, and line 232 reads it again
Later == {clock} \cup (IF clock < MaxClock THEN {clock + 1} ELSE {})

Ready == pc \in {"idle", "done"}

\* a handler starts: its locals are fresh, the previous request is kept
Begin(name, p) ==
    /\ Ready
    /\ served < MaxRequests
    /\ served' = served + 1
    /\ op' = name
    /\ payload' = p
    /\ prev' = IF op = "search"
               THEN [op |-> op, response |-> response, writes |-> writes]
               ELSE [NoPrev EXCEPT !.op = op]
    /\ summary' = << >>
    /\ news_items' = << >>
    /\ prices' = << >>
    /\ snapshot' = << >>
    /\ n' = 1
    /\ writes' = << >>

(***************************************************************************)
(* POST /api/search: run_search, step by step.                             *)
(***************************************************************************)
Financials ==
    [ revenue |-> None, profit_margin |-> None, valuation |-> None,
      note |-> "Financial metrics require premium data sources. Showing available open data only." ]

MarketTrends(items) ==
    << << "Media coverage: ", Len(items), " recent articles discovered" >>,
       << "Monitoring public sources for mentions and sentiment" >> >>

Pricing ==
    [ model |-> "Unknown",
      notes |-> "Pricing analysis requires domain-specific sources." ]

Projections ==
    [ outlook |-> "Neutral",
      assumptions |-> << "Based on recent public signals only" >> ]

\* summary or f"No summary available for {company}."
SummaryOrDefault(text, c) ==
    IF Truthy(text) THEN text
    ELSE << "No summary available for " >> \o c \o << "." >>

SnapshotSummaryRaw(text, c) == text

\* line 200
SnapshotSummary(text, c) == SummaryOrDefault(text, c)

\* lines 162-164
ReceiveSearch(p) ==
    /\ Begin("search", p)
    /\ calls' = << >>
    /\ liveReply' = << >>
    /\ storeRead' = NoRead
    /\ company' = strip(p.company)
    /\ IF company' = << >>
       THEN /\ response' = [NoResponse EXCEPT !.status = 400]
            /\ pc' = "done"
       ELSE /\ response' = NoResponse
            /\ pc' = "fetch_summary"
    /\ UNCHANGED << db, insightStore, newsStore, queryStore, clock, probe >>

\* line 167
FetchSummary ==
    /\ pc = "fetch_summary"
    /\ \E reply \in WikiReplies :
          summary' = fetch_wikipedia_summary(reply)
    /\ calls' = Append(calls, Call("wikipedia", company, None, 0))
    /\ pc' = "fetch_news"
    /\ UNCHANGED << storeVars, op, payload, company, news_items, prices,
                    snapshot, n, writes, liveReply, storeRead, response, prev,
                    probe >>

\* line 168
FetchNews ==
    /\ pc = "fetch_news"
    /\ \E reply \in SearchNewsReplies :
          LET got == fetch_google_news_rss(company, payload.locale,
                                           DefaultNewsLimit, reply)
          IN  /\ news_items' = got.items
              /\ IF got.raised
                 THEN /\ response' = [NoResponse EXCEPT !.status = 500]
                      /\ pc' = "done"
                 ELSE /\ response' = response
                      /\ pc' = "fetch_prices"
    /\ calls' = Append(calls, Call("news", company,
                                   NewsLocale(payload.locale),
                                   DefaultNewsLimit))
    /\ UNCHANGED << storeVars, op, payload, company, summary, prices,
                    snapshot, n, writes, liveReply, storeRead, prev, probe >>

\* line 169; without a ticker no request is sent
FetchPrices ==
    /\ pc = "fetch_prices"
    /\ IF payload.ticker = None \/ payload.ticker = ""
       THEN /\ prices' = fetch_stooq_prices(payload.ticker,
                                            DefaultPriceLimit, NoReply)
            /\ calls' = calls
       ELSE /\ \E reply \in SearchPriceReplies :
                  prices' = fetch_stooq_prices(payload.ticker,
                                               DefaultPriceLimit, reply)
            /\ calls' = Append(calls, Call("prices", << payload.ticker >>,
                                           None, DefaultPriceLimit))
    /\ pc' = "build_snapshot"
    /\ UNCHANGED << storeVars, op, payload, company, summary, news_items,
                    snapshot, n, writes, liveReply, storeRead, response, prev,
                    probe >>

\* lines 172-207: the placeholders and the snapshot, with its clock reading
BuildSnapshot ==
    /\ pc = "build_snapshot"
    /\ snapshot' = << [ company |-> company,
                        summary |-> SnapshotSummary(summary, company),
                        financials |-> Financials,
                        market_trends |-> MarketTrends(news_items),
                        competitors |-> << >>,
                        pricing |-> Pricing,
                        projections |-> Projections,
                        last_refreshed |-> clock ] >>
    /\ pc' = "write_insight"
    /\ UNCHANGED << db, insightStore, newsStore, queryStore, clock, served, op,
                    payload, company, summary, news_items, prices, n, calls,
                    writes, liveReply, storeRead, response, prev, probe >>

Write(collection, ok) == [collection |-> collection, ok |-> ok]

AfterInsightWritePropagate(ok) ==
    IF ok THEN (IF news_items = << >> THEN "write_query" ELSE "write_news")
    ELSE "done"

\* line 208 inside the try of line 197: a failure leaves the whole block
AfterInsightWrite(ok) ==
    IF ok THEN (IF news_items = << >> THEN "write_query" ELSE "write_news")
    ELSE "respond"

WriteInsight ==
    /\ pc = "write_insight"
    /\ \E ok \in WriteOutcomes :
          /\ writes' = Append(writes, Write("insight", ok))
          /\ insightStore' = IF ok
                             THEN create_document(insightStore, snapshot[1])
                             ELSE insightStore
          /\ pc' = AfterInsightWrite(ok)
    /\ UNCHANGED << db, newsStore, queryStore, clock, served, op, payload,
                    company, summary, news_items, prices, snapshot, n, calls,
                    liveReply, storeRead, response, prev, probe >>

AfterNewsWriteBreak(ok) ==
    IF ~ok THEN "respond"
    ELSE IF n < Len(news_items) THEN "write_news" ELSE "write_query"

\* lines 209-213: except Exception: continue
AfterNewsWrite(ok) ==
    IF n < Len(news_items) THEN "write_news" ELSE "write_query"

WriteNews ==
    /\ pc = "write_news"
    /\ \E ok \in WriteOutcomes :
          /\ writes' = Append(writes, Write("news", ok))
          /\ newsStore' = IF ok
                          THEN create_document(newsStore, news_items[n])
                          ELSE newsStore
          /\ pc' = AfterNewsWrite(ok)
    /\ n' = n + 1
    /\ UNCHANGED << db, insightStore, queryStore, clock, served, op, payload,
                    company, summary, news_items, prices, snapshot, calls,
                    liveReply, storeRead, response, prev, probe >>

QueryDocRaw(c, p) == [company |-> p.company, locale |-> p.locale]

\* line 216
QueryDoc(c, p) == [company |-> c, locale |-> p.locale]

\* lines 214-218
WriteQuery ==
    /\ pc = "write_query"
    /\ \E ok \in WriteOutcomes :
          /\ writes' = Append(writes, Write("companyquery", ok))
          /\ queryStore' = IF ok
                           THEN create_document(queryStore,
                                                QueryDoc(company, payload))
                           ELSE queryStore
    /\ pc' = "respond"
    /\ UNCHANGED << db, insightStore, newsStore, clock, served, op, payload,
                    company, summary, news_items, prices, snapshot, n, calls,
                    liveReply, storeRead, response, prev, probe >>

\* lines 223-233: the response, with a clock reading of its own
InsightResponse(t) ==
    [ company |-> company,
      summary |-> SummaryOrDefault(summary, company),
      financials |-> Financials,
      market_trends |-> MarketTrends(news_items),
      competitors |-> << >>,
      pricing |-> Pricing,
      projections |-> Projections,
      prices |-> prices,
      last_refreshed |-> t ]

Respond ==
    /\ pc = "respond"
    /\ \E t \in Later :
          /\ clock' = t
          /\ response' = [status |-> 200, body |-> << InsightResponse(t) >>,
                          items |-> << >>]
    /\ pc' = "done"
    /\ UNCHANGED << db, insightStore, newsStore, queryStore, served, op,
                    payload, company, summary, news_items, prices, snapshot,
                    n, calls, writes, liveReply, storeRead, prev, probe >>

(***************************************************************************)
(* GET /api/insights: get_insights.                                        *)
(***************************************************************************)
\* lines 245-255; every stored snapshot carries all the keys read here
InsightFromDoc(d) ==
    [ company |-> d.company,
      summary |-> d.summary,
      financials |-> d.financials,
      market_trends |-> d.market_trends,
      competitors |-> d.competitors,
      pricing |-> d.pricing,
      projections |-> d.projections,
      prices |-> << >>,
      last_refreshed |-> d.last_refreshed ]

\* lines 239-242: except Exception: docs = []
DocsRead(read) == IF read.ok THEN read.docs ELSE << >>

GetInsights(p) ==
    /\ Begin("insights", p)
    /\ company' = << >>
    /\ calls' = << >>
    /\ liveReply' = << >>
    /\ \E read \in ReadOutcomes(insightStore, p.company, InsightsLimit) :
          /\ storeRead' = read
          /\ response' =
                [ status |-> 200, body |-> << >>,
                  items |-> [i \in 1..Len(DocsRead(read)) |->
                               InsightFromDoc(DocsRead(read)[i])] ]
    /\ pc' = "done"
    /\ UNCHANGED << db, insightStore, newsStore, queryStore, clock, probe >>

(***************************************************************************)
(* GET /api/news: get_news.                                                *)
(***************************************************************************)
UseStoredAlways(read) == read.ok

\* lines 262-270: the stored documents are returned when the read gave some
UseStored(read) == read.ok /\ read.docs # << >>

\* lines 265-267: no stored published_at is a datetime (run_search stores
\* the feed's text), so the documents are returned as read
GetNewsStored(p) ==
    /\ Begin("news", p)
    /\ company' = << >>
    /\ calls' = << >>
    /\ liveReply' = << >>
    /\ \E read \in ReadOutcomes(newsStore, p.company, p.limit) :
          /\ UseStored(read)
          /\ storeRead' = read
          /\ response' = [status |-> 200, body |-> << >>,
                          items |-> read.docs]
    /\ pc' = "done"
    /\ UNCHANGED << db, insightStore, newsStore, queryStore, clock, probe >>

\* line 272: the live feed, with the default locale
GetNewsLive(p) ==
    /\ Begin("news", p)
    /\ company' = << >>
    /\ \E read \in ReadOutcomes(newsStore, p.company, p.limit) :
          /\ ~UseStored(read)
          /\ storeRead' = read
    /\ \E reply \in LiveNewsReplies :
          LET got == fetch_google_news_rss(p.company, None, p.limit, reply)
          IN  /\ liveReply' = << reply >>
              /\ response' = IF got.raised
                             THEN [NoResponse EXCEPT !.status = 500]
                             ELSE [status |-> 200, body |-> << >>,
                                   items |-> got.items]
    /\ calls' = << Call("news", p.company, NewsLocale(None), p.limit) >>
    /\ pc' = "done"
    /\ UNCHANGED << db, insightStore, newsStore, queryStore, clock, probe >>

(***************************************************************************)
(* A direct call of one fetcher.                                           *)
(***************************************************************************)
NoProbe == [fn |-> "none", ticker |-> None, limit |-> 0, reply |-> NoReply,
            returned |-> FALSE, raised |-> FALSE, out |-> << >>]

PriceLimits == (-1)..(MaxRows + 1)

PriceProbes ==
    { [NoProbe EXCEPT !.fn = "prices", !.ticker = t, !.limit = l,
                      !.reply = r] :
      t \in Tickers, l \in PriceLimits,
      r \in PriceReplies(CsvBodies(SeqsUpTo(Rows, MaxRows))) }

NewsProbes ==
    { [NoProbe EXCEPT !.fn = "news", !.limit = l, !.reply = r] :
      l \in NewsLimits, r \in NewsReplies(Feeds) }

ProbeCompany == << "a" >>

CallPrices ==
    /\ probe.fn = "prices"
    /\ ~probe.returned
    /\ probe' = [probe EXCEPT
                   !.returned = TRUE,
                   !.out = fetch_stooq_prices(probe.ticker, probe.limit,
                                              probe.reply)]
    /\ UNCHANGED << storeVars, requestVars >>

CallNews ==
    /\ probe.fn = "news"
    /\ ~probe.returned
    /\ LET got == fetch_google_news_rss(ProbeCompany, None, probe.limit,
                                        probe.reply)
       IN  probe' = [probe EXCEPT !.returned = TRUE, !.raised = got.raised,
                                  !.out = got.items]
    /\ UNCHANGED << storeVars, requestVars >>

(***************************************************************************)
(* The specifications.                                                     *)
(***************************************************************************)
InitServer ==
    /\ db \in {"connected", "none"}
    /\ insightStore = << >>
    /\ newsStore = << >>
    /\ queryStore = << >>
    /\ clock = 0
    /\ served = 0
    /\ pc = "idle"
    /\ op = "none"
    /\ payload = NoPayload
    /\ company = << >>
    /\ summary = << >>
    /\ news_items = << >>
    /\ prices = << >>
    /\ snapshot = << >>
    /\ n = 1
    /\ calls = << >>
    /\ writes = << >>
    /\ liveReply = << >>
    /\ storeRead = NoRead
    /\ response = NoResponse
    /\ prev = NoPrev

Init == InitServer /\ probe = NoProbe

Next ==
    \/ \E p \in SearchPayloads : ReceiveSearch(p)
    \/ FetchSummary
    \/ FetchNews
    \/ FetchPrices
    \/ BuildSnapshot
    \/ WriteInsight
    \/ WriteNews
    \/ WriteQuery
    \/ Respond
    \/ \E p \in InsightsPayloads : GetInsights(p)
    \/ \E p \in NewsPayloads : GetNewsStored(p)
    \/ \E p \in NewsPayloads : GetNewsLive(p)

Spec == Init /\ [][Next]_vars

InitPrices == InitServer /\ probe \in PriceProbes

NextPrices == CallPrices

SpecPrices == InitPrices /\ [][NextPrices]_vars

InitNews == InitServer /\ probe \in NewsProbes

NextNews == CallNews

SpecNews == InitNews /\ [][NextNews]_vars

(***************************************************************************)
(* Properties.                                                             *)
(***************************************************************************)
AllSpaces(s) == \A i \in 1..Len(s) : s[i] = Space

Trimmed(s) == s # << >> /\ s[1] # Space /\ s[Len(s)] # Space

SearchDone == op = "search" /\ pc = "done"

InsightWritten(w) == w # << >> /\ w[1].collection = "insight" /\ w[1].ok

\* C1: a search whose company is empty or all whitespace is answered 400,
\* and the request starts no upstream call and no store write.
C1_BlankCompanyRejected ==
    (op = "search" /\ AllSpaces(payload.company)) =>
        /\ pc = "done"
        /\ response.status = 400
        /\ calls = << >>
        /\ writes = << >>

C1_Witness ==
    /\ SearchDone
    /\ payload.company = << Space >>
    /\ response.status = 400

\* C2: whatever the store did (unavailable, or any of the writes failing),
\* a valid search is answered 200 with the body assembled from the fetch
\* results alone: company, summary, financials, market_trends, competitors,
\* pricing, projections and prices.
C2_ResponseIgnoresStore ==
    (SearchDone /\ ~AllSpaces(payload.company)) =>
        /\ response.status = 200
        /\ Len(response.body) = 1
        /\ response.body[1].company = company
        /\ response.body[1].summary =
              (IF summary = << >>
               THEN << "No summary available for " >> \o company \o << "." >>
               ELSE summary)
        /\ response.body[1].financials.note = Financials.note
        /\ response.body[1].financials.revenue = None
        /\ response.body[1].market_trends[1][2] = Len(news_items)
        /\ Len(response.body[1].market_trends) = 2
        /\ response.body[1].competitors = << >>
        /\ response.body[1].pricing.model = "Unknown"
        /\ response.body[1].projections.outlook = "Neutral"
        /\ response.body[1].prices = prices

C2_Witness ==
    /\ SearchDone
    /\ response.status = 200
    /\ Len(writes) = 4
    /\ writes[1].ok /\ ~writes[2].ok /\ writes[3].ok /\ ~writes[4].ok
    /\ prices # << >>

C2_WitnessStoreDown ==
    /\ SearchDone
    /\ db = "none"
    /\ response.status = 200
    /\ news_items # << >>

\* get_insights was asked, right after a search that stored its insight,
\* for the company that search returned
RoundTrip ==
    /\ op = "insights" /\ pc = "done"
    /\ prev.op = "search"
    /\ prev.response.status = 200
    /\ InsightWritten(prev.writes)
    /\ payload.company = prev.response.body[1].company

ReturnsTheInsight ==
    \E i \in DOMAIN response.items :
        /\ response.items[i].company = prev.response.body[1].company
        /\ response.items[i].summary = prev.response.body[1].summary

C4_StoredCompanyTrimmed ==
    /\ \A i \in DOMAIN insightStore : Trimmed(insightStore[i].company)
    /\ \A i \in DOMAIN newsStore : Trimmed(newsStore[i].company)
    /\ \A i \in DOMAIN queryStore : Trimmed(queryStore[i].company)

C4_Witness ==
    /\ op = "news" /\ pc = "done"
    /\ ~Trimmed(payload.company)
    /\ prev.op = "search"
    /\ insightStore # << >> /\ newsStore # << >> /\ queryStore # << >>

\* C5: get_news answers 200; when the read succeeded and gave documents it
\* returns them (documents of the news collection for that company) and
\* starts no live fetch; otherwise it makes exactly one live fetch, with the
\* same company and limit, and returns what that fetch returned.
C5_NewsStoredOrLive ==
    (op = "news" /\ pc = "done") =>
        /\ response.status = 200
        /\ (storeRead.ok /\ storeRead.docs # << >>) =>
              /\ response.items = storeRead.docs
              /\ calls = << >>
              /\ \A i \in DOMAIN response.items :
                    /\ response.items[i].company = payload.company
                    /\ \E j \in DOMAIN newsStore :
                          newsStore[j] = response.items[i]
        /\ ~(storeRead.ok /\ storeRead.docs # << >>) =>
              /\ calls = << [fn |-> "news", name |-> payload.company,
                             locale |-> "en-US", limit |-> payload.limit] >>
              /\ Len(liveReply) = 1
              /\ response.items =
                    fetch_google_news_rss(payload.company, None,
                                          payload.limit, liveReply[1]).items

C5_WitnessStored ==
    /\ op = "news" /\ pc = "done"
    /\ storeRead.ok
    /\ Len(response.items) = 2
    /\ calls = << >>

C5_WitnessLive ==
    /\ op = "news" /\ pc = "done"
    /\ newsStore # << >>
    /\ ~storeRead.ok
    /\ response.items # << >>

\* the lines after the header, trailing blank lines not counted
DataRows(text) ==
    LET last == CHOOSE k \in 0..Len(text) :
                    /\ k = 0 \/ text[k] # << "" >>
                    /\ \A j \in (k + 1)..Len(text) : text[j] = << "" >>
    IN  SubSeq(text, 2, last)

Numeric(x) == x \in {"1.5", "2", "12.7", "-3.9"}

WellFormed(row) == Len(row) = 6 /\ \A i \in 2..6 : Numeric(row[i])

LastRows(rows, k) == SubSeq(rows, Max(1, Len(rows) - k + 1), Len(rows))

PricesParsed ==
    /\ probe.fn = "prices" /\ probe.returned
    /\ probe.ticker = "AAPL"
    /\ ~probe.reply.raised /\ probe.reply.status = 200
    /\ probe.reply.text # << >> /\ probe.reply.text # Html

\* C6: for a body that passes the status, empty and HTML checks and a
\* limit >= 1, fetch_stooq_prices returns exactly the well-formed rows among
\* the last `limit` data rows, in their order; a malformed row is skipped
\* alone.
C6_WellFormedRowsOfWindow ==
    (PricesParsed /\ probe.limit >= 1) =>
        LET kept == SelectSeq(LastRows(DataRows(probe.reply.text),
                                       probe.limit), WellFormed)
        IN  /\ Len(probe.out) = Len(kept)
            /\ \A i \in DOMAIN kept :
                  /\ probe.out[i].date = kept[i][1]
                  /\ probe.out[i] = Bar(kept[i])

C6_Witness ==
    /\ PricesParsed
    /\ probe.limit = 2
    /\ Len(probe.reply.text) = 4
    /\ probe.reply.text[2][1] = "d1"
    /\ probe.reply.text[3][1] = "d3"
    /\ probe.reply.text[4][1] = "d2"
    /\ Len(probe.out) = 1
    /\ probe.out[1].date = "d2"
    /\ probe.out[1].volume = -3

NewsReturned == probe.fn = "news" /\ probe.returned

\* an exception is raised while the loop handles an item it visits
WalkFault ==
    /\ probe.reply.faultAt > 0
    /\ probe.reply.faultAt <= Len(probe.reply.items)
    /\ probe.limit >= probe.reply.faultAt
       \/ (probe.limit < 0
           /\ Len(probe.reply.items) + probe.limit >= probe.reply.faultAt)

\* C7 as stated: fetch_google_news_rss never raises, and returns the empty
\* list if the HTTP call fails, the status is not 2xx, the body does not
\* parse, or an exception occurs while the items are walked.
C7_EmptyOnAnyNon2xx ==
    NewsReturned =>
        /\ ~probe.raised
        /\ ( \/ probe.reply.raised
             \/ probe.reply.status < 200 \/ probe.reply.status > 299
             \/ ~probe.reply.wellFormed
             \/ WalkFault ) => probe.out = << >>

\* C7, amended: the same with "the status is 4xx or 5xx" for "not 2xx".
C7_EmptyOnFailure ==
    NewsReturned =>
        /\ ~probe.raised
        /\ ( \/ probe.reply.raised
             \/ probe.reply.status \in 400..599
             \/ ~probe.reply.wellFormed
             \/ WalkFault ) => probe.out = << >>

C7_Witness ==
    /\ NewsReturned
    /\ probe.reply.status = 200
    /\ probe.reply.wellFormed
    /\ Len(probe.reply.items) = 2
    /\ probe.reply.faultAt = 2
    /\ probe.limit = 2
    /\ probe.out = << >>

\* C8 as stated: the failure of any one write of a search does not keep
\* the others from being attempted: the insight write, one write per news
\* item and the query-log write are all made.
C8_AllWritesAttempted ==
    (SearchDone /\ response.status = 200) =>
        Len(writes) = Len(news_items) + 2

\* C8, amended: when the insight write succeeds, every news write and the
\* query-log write are attempted whichever of them fail; when the insight
\* write fails, no other write of that search is attempted.
C8_WritesAfterInsight ==
    (SearchDone /\ response.status = 200) =>
        /\ writes # << >>
        /\ writes[1].collection = "insight"
        /\ IF writes[1].ok
           THEN /\ Len(writes) = Len(news_items) + 2
                /\ \A i \in 2..(Len(writes) - 1) :
                      writes[i].collection = "news"
                /\ writes[Len(writes)].collection = "companyquery"
           ELSE Len(writes) = 1

C8_Witness ==
    /\ SearchDone
    /\ Len(writes) = 4
    /\ writes[1].ok /\ ~writes[2].ok /\ ~writes[3].ok /\ writes[4].ok
    /\ Len(newsStore) = 0
    /\ Len(queryStore) = 1

\* C9: the last_refreshed a search returns is the one of the insight
\* document it stored.
C9_SingleTimestamp ==
    (SearchDone /\ response.status = 200 /\ InsightWritten(writes)) =>
        /\ response.body[1].last_refreshed = snapshot[1].last_refreshed
        /\ response.body[1].last_refreshed =
              insightStore[Len(insightStore)].last_refreshed

\* C10: for every integer limit, fetch_google_news_rss returns the first
\* `limit` items of the feed (all of them when there are fewer, none when
\* limit <= 0), in document order.
C10_AtMostLimit ==
    ( /\ NewsReturned
      /\ ~probe.reply.raised /\ probe.reply.status = 200
      /\ probe.reply.wellFormed /\ probe.reply.faultAt = 0 ) =>
        /\ Len(probe.out) = Max(0, Min(probe.limit, Len(probe.reply.items)))
        /\ \A i \in DOMAIN probe.out :
              probe.out[i] = NewsItem(ProbeCompany, probe.reply.items[i])

====
